---- MODULE Spec2Model ----
(***************************************************************************)
(* Smart Krishi API (src/main.py, src/schemas.py): the HTTP handlers as a  *)
(* state machine.  One action per handler; every action sets req (the      *)
(* request it served) and resp (what the client got back).                 *)
(*                                                                         *)
(* Numbers that are floats in the code (temperature, wind speed,           *)
(* precipitation) are integers here, in hundredths of the unit.            *)
(* An optional value is a sequence of length 0 (None / absent) or 1.       *)
(* Strings whose prefix is taken (error texts) are sequences of codes.     *)
(* The emoji that prefix the /test texts are left out of the strings.      *)
(***************************************************************************)
EXTENDS Integers, Sequences, FiniteSets, TLC

VARIABLES
    api_key,    \* os.getenv("OPENWEATHER_API_KEY") is set
    db,         \* database.db: None, or the store handle
    database_url, \* os.getenv("DATABASE_URL") is set
    store,      \* the document store: its collections
    req,        \* the request being answered
    resp,       \* the response (status 200) or the error (4xx / 5xx)
    upstream,   \* what the weather provider or the store did for this request
    calls,      \* calls made to the weather provider for this request
    demoLog     \* every (request, response) a demo endpoint has answered

vars == <<api_key, db, database_url, store, req, resp, upstream, calls, demoLog>>

----------------------------------------------------------------------------
(* Bounds of the model *)

MaxDocs == 2
MaxOtherCollections == 11
MaxPhoneLen == 11
TrendSeeds == 3

\* floats are kept in hundredths
Scale == 10 * 10

(* Program constants *)

RainPostpone == 60
HotTemp == 34
DryHumidity == 40
WindyAbove == 20
HumidAbove == 80
MockTempLo == 24
MockTempHi == 35
MockRainLo == 0
MockRainHi == 90
MockHumLo == 35
MockHumHi == 88
MockWindLo == 2
MockWindHi == 18
DefaultTemp == 30
DefaultHumidity == 60
DefaultWind == 4
RainFactor == 50
RainCap == 90
GatewayErrLen == 120
HealthErrLen == 80
HealthMaxCollections == 10
MinPhoneLen == 10
TrendDays == 7
ItemOffLo == -120
ItemOffHi == 150
TrendOffLo == -180
TrendOffHi == 180

----------------------------------------------------------------------------
(* Values *)

None == << >>
Some(v) == <<v>>

Min(a, b) == IF a <= b THEN a ELSE b

\* s[:n]
Take(s, n) == SubSeq(s, 1, Min(n, Len(s)))

\* int(x) of a float x given in hundredths: truncation toward zero
IntOf(x) == IF x >= 0 THEN x \div Scale ELSE -((-x) \div Scale)

\* round(u, 1) of a float u given in hundredths: the nearest tenth; on a tie
\* the float's binary representation decides, so either neighbour
Round1(u) ==
    LET lo == (u \div 10) * 10
    IN  IF u % 10 < 5 THEN {lo}
        ELSE IF u % 10 > 5 THEN {lo + 10}
        ELSE {lo, lo + 10}

\* str(e) of an exception: a text of n characters
ErrText(n) == [i \in 1..n |-> i % 10]

NoText == << >>

NoRequest == [op |-> "none"]
NoResponse == [status |-> 0]
NoUpstream == [outcome |-> "not_called"]

----------------------------------------------------------------------------
(* Irrigation rule *)

\* the rule with the hot-and-dry test ahead of the rain test
recommend_hot_dry_first(temp_c, rain_prob, humidity, wind_speed) ==
    IF temp_c >= HotTemp * Scale /\ humidity < DryHumidity
    THEN "Hot and dry - irrigate in early morning/evening, consider mulching."
    ELSE IF rain_prob >= RainPostpone
    THEN "High rain chance - postpone irrigation and ensure drainage."
    ELSE IF wind_speed > WindyAbove * Scale
    THEN "Windy - avoid spraying; irrigate lightly to reduce stress."
    ELSE IF humidity > HumidAbove
    THEN "Humid - reduce irrigation to prevent fungal diseases."
    ELSE "Normal conditions - maintain regular irrigation schedule."

_recommend_irrigation(temp_c, rain_prob, humidity, wind_speed) ==
    IF rain_prob >= RainPostpone
    THEN "High rain chance - postpone irrigation and ensure drainage."
    ELSE IF temp_c >= HotTemp * Scale /\ humidity < DryHumidity
    THEN "Hot and dry - irrigate in early morning/evening, consider mulching."
    ELSE IF wind_speed > WindyAbove * Scale
    THEN "Windy - avoid spraying; irrigate lightly to reduce stress."
    ELSE IF humidity > HumidAbove
    THEN "Humid - reduce irrigation to prevent fungal diseases."
    ELSE "Normal conditions - maintain regular irrigation schedule."

WeatherResponse(temp, rain, humidity, wind, rec) ==
    [status |-> 200, temperature_c |-> temp, rain_probability |-> rain,
     humidity |-> humidity, wind_speed |-> wind, recommendation |-> rec]

HTTPException(code, prefix, text) ==
    [status |-> code, detail |-> [prefix |-> prefix, text |-> text]]

----------------------------------------------------------------------------
(* GET /api/weather/{lat}/{lon} *)

Absent == [kind |-> "absent", v |-> 0]
Bad == [kind |-> "bad", v |-> 0]
Num(n) == [kind |-> "num", v |-> n]

\* random.uniform(24, 35), random.randint(0, 90), random.randint(35, 88),
\* random.uniform(2, 18): the draws the model takes
MockTempDraws ==
    {MockTempLo * Scale, MockTempLo * Scale + 5, HotTemp * Scale - 5,
     HotTemp * Scale - 4, HotTemp * Scale, MockTempHi * Scale - 5,
     MockTempHi * Scale}
MockRainDraws == {MockRainLo, RainPostpone - 1, RainPostpone, MockRainHi}
MockHumidityDraws ==
    {MockHumLo, DryHumidity - 1, DryHumidity, HumidAbove, HumidAbove + 1, MockHumHi}
MockWindDraws ==
    {MockWindLo * Scale, MockWindLo * Scale + 5, MockWindHi * Scale - 5,
     MockWindHi * Scale}

\* the fallback with rain and humidity swapped in the call of the rule
MockWeatherSwapped(temp, rain, humidity, wind) ==
    WeatherResponse(temp, rain, humidity, wind,
                    _recommend_irrigation(temp, humidity, rain, wind))

\* the fallback when no key is set: the response for the four draws
MockWeather(temp, rain, humidity, wind) ==
    WeatherResponse(temp, rain, humidity, wind,
                    _recommend_irrigation(temp, rain, humidity, wind))

\* rain_prob with round() in the place of int()
RainProbabilityRounded(rain) ==
    IF rain.kind = "num"
    THEN Min(RainCap, (rain.v * RainFactor + Scale \div 2) \div Scale)
    ELSE 0

\* rain_prob of the live path: 0, or min(90, int(data["rain"]["1h"] * 50))
RainProbability(rain) ==
    IF rain.kind = "num" THEN Min(RainCap, IntOf(rain.v * RainFactor)) ELSE 0

\* a step of the try block raises: a container that is no dict, a value
\* float() or int() rejects, a "rain" that "in" or indexing rejects
LiveRaises(data) ==
    \/ data.main = "bad"
    \/ data.wind = "bad"
    \/ data.main = "dict" /\ data.temp.kind = "bad"
    \/ data.main = "dict" /\ data.humidity.kind = "bad"
    \/ data.wind = "dict" /\ data.speed.kind = "bad"
    \/ data.rain.kind \in {"bad", "bad1h"}

\* the mapping of the provider's JSON into the response
LiveWeather(data) ==
    LET temp == IF data.main = "dict" /\ data.temp.kind = "num"
                THEN data.temp.v ELSE DefaultTemp * Scale
        humidity == IF data.main = "dict" /\ data.humidity.kind = "num"
                    THEN IntOf(data.humidity.v) ELSE DefaultHumidity
        wind == IF data.wind = "dict" /\ data.speed.kind = "num"
                THEN data.speed.v ELSE DefaultWind * Scale
        rain_prob == RainProbability(data.rain)
    IN  WeatherResponse(temp, rain_prob, humidity, wind,
                        _recommend_irrigation(temp, rain_prob, humidity, wind))

\* the gateway error with the whole text of the exception
GatewayErrorUntruncated(err) ==
    HTTPException(502, "OpenWeather error: ", err)

\* except Exception as e: HTTPException(502, f"OpenWeather error: {str(e)[:120]}")
GatewayError(err) ==
    HTTPException(502, "OpenWeather error: ", Take(err, GatewayErrLen))

\* the outcome of the try block for what the provider did
LiveOutcome(reply) ==
    IF reply.outcome # "ok" \/ LiveRaises(reply.data)
    THEN GatewayError(reply.err)
    ELSE LiveWeather(reply.data)

\* requests.get calls per request on the live path
LiveCalls == 1

get_weather_coords(lat, lon, draws, reply) ==
    /\ req' = [op |-> "weather_coords", lat |-> lat, lon |-> lon]
    /\ IF ~api_key
       THEN /\ \E temp \in Round1(draws.temp), wind \in Round1(draws.wind) :
                  resp' = MockWeather(temp, draws.rain, draws.humidity, wind)
            /\ upstream' = NoUpstream
            /\ calls' = 0
       ELSE /\ upstream' = reply
            /\ calls' = LiveCalls
            /\ resp' = LiveOutcome(reply)
    /\ UNCHANGED <<api_key, db, database_url, store, demoLog>>

\* _recommend_irrigation called on its own, for any four values
recommend_irrigation_call(temp_c, rain_prob, humidity, wind_speed) ==
    /\ req' = [op |-> "recommend", temp_c |-> temp_c, rain_prob |-> rain_prob,
               humidity |-> humidity, wind_speed |-> wind_speed]
    /\ resp' = [status |-> 200,
                text |-> _recommend_irrigation(temp_c, rain_prob, humidity, wind_speed)]
    /\ upstream' = NoUpstream
    /\ calls' = 0
    /\ UNCHANGED <<api_key, db, database_url, store, demoLog>>

----------------------------------------------------------------------------
(* GET /api/mandi/{district} *)

crops == <<"Wheat", "Soyabean", "Maize", "Rice">>

base_prices ==
    [c \in {"Wheat", "Soyabean", "Maize", "Rice"} |->
        CASE c = "Wheat" -> 2140
          [] c = "Soyabean" -> 4400
          [] c = "Maize" -> 1860
          [] c = "Rice" -> 2500]

Letters == {"a", "b", "A", "B"}
Upper(c) == CASE c = "a" -> "A" [] c = "b" -> "B" [] OTHER -> c
Lower(c) == CASE c = "A" -> "a" [] c = "B" -> "b" [] OTHER -> c

\* str.title(): a letter that starts a word is upper-cased, the others lower-cased
Title(s) ==
    [i \in 1..Len(s) |->
        IF i = 1 \/ s[i - 1] \notin Letters THEN Upper(s[i]) ELSE Lower(s[i])]

Central == <<" ", "C", "e", "n", "t", "r", "a", "l">>

\* max(items, key=price): the first item of the greatest price
MaxItem(items) ==
    LET i == CHOOSE i \in 1..Len(items) :
                /\ \A j \in 1..Len(items) : items[j].price <= items[i].price
                /\ \A j \in 1..(i - 1) : items[j].price < items[i].price
    IN  items[i]

\* random.randint(-120, 150) for an item: the draws the model takes
ItemOffsets == {ItemOffLo, 0, ItemOffHi}

\* random.randint(-180, 180) for the k-th trend point, in run s of the
\* generator: all lowest, all highest, or mixed
TrendOffset(s, k) ==
    IF s = 1 THEN TrendOffLo
    ELSE IF s = 2 THEN TrendOffHi
    ELSE TrendOffLo + ((s * 131 + k * 47 + s * k * 7) % (TrendOffHi - TrendOffLo + 1))

\* the 7-day trend: for each day, oldest first, every crop
Trend(today, s) ==
    [k \in 1..(TrendDays * Len(crops)) |->
        LET i == (k - 1) \div Len(crops)
            c == crops[((k - 1) % Len(crops)) + 1]
        IN  [date |-> today - ((TrendDays - 1) - i), crop |-> c,
             price |-> base_prices[c] + TrendOffset(s, k)]]

\* the response with best taken over the trend points
MandiResponseBestOfTrend(district, items, trend) ==
    LET best == MaxItem(trend)
    IN  [status |-> 200, district |-> Title(district), items |-> items,
         trend |-> trend, best_mandi |-> Title(district) \o Central,
         best_crop |-> best.crop, best_price |-> best.price]

MandiResponse(district, items, trend) ==
    LET best == MaxItem(items)
    IN  [status |-> 200, district |-> Title(district), items |-> items,
         trend |-> trend, best_mandi |-> Title(district) \o Central,
         best_crop |-> best.crop, best_price |-> best.price]

get_mandi_district(district, today, offs, s) ==
    /\ req' = [op |-> "mandi_district", district |-> district]
    /\ resp' = MandiResponse(district,
                   [i \in 1..Len(crops) |->
                       [crop |-> crops[i], price |-> base_prices[crops[i]] + offs[i]]],
                   Trend(today, s))
    /\ upstream' = NoUpstream
    /\ calls' = 0
    /\ UNCHANGED <<api_key, db, database_url, store, demoLog>>

----------------------------------------------------------------------------
(* POST /api/login *)

\* LoginRequest: phone is a required string
LoginValid(payload) == payload.phone # None

\* a phone that is too short, taken one character too strictly
LoginResponseOffByOne(phone) ==
    IF Len(phone) = 0 \/ Len(phone) <= MinPhoneLen
    THEN [status |-> 400, detail |-> "Invalid phone number"]
    ELSE [status |-> 200, success |-> TRUE, message |-> "OTP sent to your number"]

\* the handler's body, for a phone string
LoginResponse(phone) ==
    IF Len(phone) = 0 \/ Len(phone) < MinPhoneLen
    THEN [status |-> 400, detail |-> "Invalid phone number"]
    ELSE [status |-> 200, success |-> TRUE, message |-> "OTP sent to your number"]

otp_login(payload) ==
    /\ req' = [op |-> "login", payload |-> payload]
    /\ resp' = IF ~LoginValid(payload)
               THEN [status |-> 422, detail |-> "validation error"]
               ELSE LoginResponse(payload.phone[1])
    /\ upstream' = NoUpstream
    /\ calls' = 0
    /\ UNCHANGED <<api_key, db, database_url, store, demoLog>>

----------------------------------------------------------------------------
(* The document store (database.py) *)

EmptyStore(others) ==
    [contactsubmission |-> << >>, weatheralert |-> << >>, others |-> others]

TotalDocs == Len(store.contactsubmission) + Len(store.weatheralert)

\* str(inserted_id) of the n-th document
OidStr(n) == <<"o", "i", "d", n>>

\* create_document succeeds: the store is connected and the insert goes through
InsertSucceeds(ok) == db # None /\ ok

\* the store after create_document(collection, doc) succeeded
Inserted(collection, doc) ==
    [store EXCEPT ![collection] = Append(@, doc)]

\* db.list_collection_names(): the collections that were there, then those
\* the inserts created
CollectionNames ==
    [i \in 1..store.others |-> [n |-> "other", i |-> i]]
    \o (IF Len(store.contactsubmission) > 0
        THEN <<[n |-> "contactsubmission", i |-> 0]>> ELSE << >>)
    \o (IF Len(store.weatheralert) > 0
        THEN <<[n |-> "weatheralert", i |-> 0]>> ELSE << >>)

----------------------------------------------------------------------------
(* POST /api/contact *)

\* ContactCreate with phone optional
ContactValidNameOnly(payload) == payload.name # None

\* ContactCreate: name and phone are required strings
ContactValid(payload) == payload.name # None /\ payload.phone # None

\* the submission without its district
ContactSubmissionNoDistrict(payload) ==
    [name |-> payload.name, phone |-> payload.phone, village |-> payload.village,
     district |-> None, message |-> payload.message, source |-> Some("web")]

ContactSubmission(payload) ==
    [name |-> payload.name, phone |-> payload.phone, village |-> payload.village,
     district |-> payload.district, message |-> payload.message,
     source |-> Some("web")]

submit_contact(payload, ok, err) ==
    /\ req' = [op |-> "contact", payload |-> payload]
    /\ IF ~ContactValid(payload)
       THEN /\ resp' = [status |-> 422, detail |-> "validation error"]
            /\ store' = store
            /\ upstream' = NoUpstream
       ELSE IF InsertSucceeds(ok)
       THEN /\ TotalDocs < MaxDocs
            /\ store' = Inserted("contactsubmission", ContactSubmission(payload))
            /\ resp' = [status |-> 200, id |-> OidStr(TotalDocs + 1)]
            /\ upstream' = [outcome |-> "inserted", err |-> NoText]
       ELSE /\ resp' = [status |-> 500, detail |-> err]
            /\ store' = store
            /\ upstream' = [outcome |-> "insert_failed", err |-> err]
    /\ calls' = 0
    /\ UNCHANGED <<api_key, db, database_url, demoLog>>

----------------------------------------------------------------------------
(* POST /api/weather/subscribe *)

\* WeatherSubscribeRequest: userId, lat and lon are required
SubscribeValid(payload) ==
    payload.userId # None /\ payload.lat # None /\ payload.lon # None

subscribe_weather(payload, now, ok, err) ==
    /\ req' = [op |-> "subscribe", payload |-> payload]
    /\ IF ~SubscribeValid(payload)
       THEN /\ resp' = [status |-> 422, detail |-> "validation error"]
            /\ store' = store
            /\ upstream' = NoUpstream
       ELSE IF InsertSucceeds(ok)
       THEN /\ TotalDocs < MaxDocs
            /\ upstream' = [outcome |-> "inserted", err |-> NoText]
            /\ store' = Inserted("weatheralert",
                           [userId |-> payload.userId[1], lat |-> payload.lat[1],
                            lon |-> payload.lon[1], createdAt |-> now,
                            active |-> TRUE])
            /\ resp' = [status |-> 200, success |-> TRUE]
       ELSE /\ resp' = [status |-> 500, detail |-> err]
            /\ store' = store
            /\ upstream' = [outcome |-> "insert_failed", err |-> err]
    /\ calls' = 0
    /\ UNCHANGED <<api_key, db, database_url, demoLog>>

----------------------------------------------------------------------------
(* GET /test *)

\* the response with every collection name listed
HealthConnectedAllNames(listed, err) ==
    [status |-> 200, backend |-> "Running",
     database |-> IF listed
                  THEN [text |-> "Connected & Working", err |-> NoText]
                  ELSE [text |-> "Connected but Error: ",
                        err |-> Take(err, HealthErrLen)],
     database_url |-> Some(IF database_url THEN "Set" ELSE "Not Set"),
     database_name |-> Some(IF db[1] # "" THEN db[1] ELSE "Connected"),
     connection_status |-> "Connected",
     collections |-> IF listed THEN CollectionNames ELSE << >>]

\* the response for a store handle that is set: listing worked, or raised err
HealthConnected(listed, err) ==
    [status |-> 200, backend |-> "Running",
     database |-> IF listed
                  THEN [text |-> "Connected & Working", err |-> NoText]
                  ELSE [text |-> "Connected but Error: ",
                        err |-> Take(err, HealthErrLen)],
     database_url |-> Some(IF database_url THEN "Set" ELSE "Not Set"),
     database_name |-> Some(IF db[1] # "" THEN db[1] ELSE "Connected"),
     connection_status |-> "Connected",
     collections |-> IF listed THEN Take(CollectionNames, HealthMaxCollections)
                     ELSE << >>]

\* the response when db is None
HealthNotInitialized ==
    [status |-> 200, backend |-> "Running",
     database |-> [text |-> "Available but not initialized", err |-> NoText],
     database_url |-> None, database_name |-> None,
     connection_status |-> "Not Connected", collections |-> << >>]

test_database(listed, err) ==
    /\ req' = [op |-> "test"]
    /\ resp' = IF db # None THEN HealthConnected(listed, err)
               ELSE HealthNotInitialized
    /\ upstream' = IF db # None
                   THEN [outcome |-> IF listed THEN "listed" ELSE "list_error",
                         err |-> err]
                   ELSE NoUpstream
    /\ calls' = 0
    /\ UNCHANGED <<api_key, db, database_url, store, demoLog>>

----------------------------------------------------------------------------
(* Demo endpoints *)

\* a demo endpoint's answer enters the log; again: the same request had been
\* answered before
Logged(request, response) ==
    demoLog \cup {[req |-> request, resp |-> response,
                   again |-> \E e \in demoLog : e.req = request]}

DemoWeatherResponse ==
    WeatherResponse(3150, 70, 78, 620, _recommend_irrigation(3150, 70, 78, 620))

demo_weather ==
    /\ req' = [op |-> "demo_weather"]
    /\ resp' = DemoWeatherResponse
    /\ demoLog' = Logged(req', resp')
    /\ upstream' = NoUpstream
    /\ calls' = 0
    /\ UNCHANGED <<api_key, db, database_url, store>>

DemoMandiResponse ==
    [status |-> 200, district |-> "Bhopal",
     items |-> <<[crop |-> "Wheat", price |-> 2140],
                 [crop |-> "Soyabean", price |-> 4400],
                 [crop |-> "Maize", price |-> 1860]>>]

demo_mandi ==
    /\ req' = [op |-> "demo_mandi"]
    /\ resp' = DemoMandiResponse
    /\ demoLog' = Logged(req', resp')
    /\ upstream' = NoUpstream
    /\ calls' = 0
    /\ UNCHANGED <<api_key, db, database_url, store>>

\* Form("Wheat"), and the query default "Wheat"
CropOr(crop) == IF crop = None THEN "Wheat" ELSE crop[1]

DemoDiseaseResponse(crop) ==
    [status |-> 200, disease |-> <<CropOr(crop), " Leaf Spot">>, accuracy |-> 91,
     recommended_pesticide |-> "Copper oxychloride 2g/L",
     cost_estimate |-> "450/acre",
     preventive_tips |-> <<"Remove infected leaves", "Use copper-based fungicide",
                           "Improve field sanitation">>]

\* the demo with the disease drawn at random, as /api/detect-disease draws it
demo_detect_disease_random(image, crop) ==
    /\ req' = [op |-> "demo_detect_disease", image |-> image, crop |-> crop]
    /\ \E d \in {" Leaf Blight", " Powdery Mildew", " Rust"} :
          resp' = [DemoDiseaseResponse(crop) EXCEPT !.disease = <<CropOr(crop), d>>]
    /\ demoLog' = Logged(req', resp')
    /\ upstream' = NoUpstream
    /\ calls' = 0
    /\ UNCHANGED <<api_key, db, database_url, store>>

demo_detect_disease(image, crop) ==
    /\ req' = [op |-> "demo_detect_disease", image |-> image, crop |-> crop]
    /\ resp' = DemoDiseaseResponse(crop)
    /\ demoLog' = Logged(req', resp')
    /\ upstream' = NoUpstream
    /\ calls' = 0
    /\ UNCHANGED <<api_key, db, database_url, store>>

plans ==
    [c \in {"Wheat", "Rice"} |->
        IF c = "Wheat"
        THEN <<[stage |-> "Basal", recommendation |-> "DAP 100kg/acre + MOP 20kg/acre"],
               [stage |-> "Tillering", recommendation |-> "Urea 45kg/acre"],
               [stage |-> "Heading",
                recommendation |-> "Urea 20kg/acre + Micronutrients"]>>
        ELSE <<[stage |-> "Basal", recommendation |-> "NPK 17:17:17 at 80kg/acre"],
               [stage |-> "Active tillering", recommendation |-> "Urea 25kg/acre"],
               [stage |-> "Panicle initiation",
                recommendation |-> "Urea 15kg/acre + ZnSO4 5kg/acre"]>>]

DemoFertilizerResponse(crop) ==
    [status |-> 200, crop |-> CropOr(crop),
     plan |-> IF CropOr(crop) \in DOMAIN plans THEN plans[CropOr(crop)]
              ELSE plans["Wheat"]]

demo_fertilizer(crop) ==
    /\ req' = [op |-> "demo_fertilizer", crop |-> crop]
    /\ resp' = DemoFertilizerResponse(crop)
    /\ demoLog' = Logged(req', resp')
    /\ upstream' = NoUpstream
    /\ calls' = 0
    /\ UNCHANGED <<api_key, db, database_url, store>>

----------------------------------------------------------------------------
(* The environment and the requests the model sends *)

DbHandles == {None, Some("krishi"), Some("")}

OtherCounts == {0, MaxOtherCollections - 2, MaxOtherCollections}

Init ==
    /\ api_key \in BOOLEAN
    /\ db \in DbHandles
    /\ database_url \in BOOLEAN
    /\ \E others \in OtherCounts : store = EmptyStore(others)
    /\ req = NoRequest
    /\ resp = NoResponse
    /\ upstream = NoUpstream
    /\ calls = 0
    /\ demoLog = {}

Coords == {<<0, 0>>, <<2326, 7741>>}

MockDraws ==
    [temp : MockTempDraws, rain : MockRainDraws, humidity : MockHumidityDraws,
     wind : MockWindDraws]

FewMockDraws ==
    {[temp |-> MockTempLo * Scale, rain |-> MockRainLo, humidity |-> MockHumLo,
      wind |-> MockWindLo * Scale],
     [temp |-> MockTempHi * Scale, rain |-> MockRainHi, humidity |-> MockHumHi,
      wind |-> MockWindHi * Scale]}

GatewayErrLens ==
    {0, 1, GatewayErrLen - 1, GatewayErrLen, GatewayErrLen + 1, 2 * GatewayErrLen}

TempFields ==
    {Absent, Bad, Num(HotTemp * Scale - 1), Num(HotTemp * Scale), Num(-500)}
HumidityFields ==
    {Absent, Bad, Num(DryHumidity * Scale - 1), Num(DryHumidity * Scale),
     Num(HumidAbove * Scale + 99), Num((HumidAbove + 1) * Scale)}
SpeedFields ==
    {Absent, Bad, Num(WindyAbove * Scale), Num(WindyAbove * Scale + 1)}
RainFields ==
    {Absent, Bad, [kind |-> "no1h", v |-> 0], [kind |-> "bad1h", v |-> 0]}
    \cup {Num(mm) : mm \in {0, 1, 2, 35, 118, 119, 120, 121, 180, 181, 500, -100}}

NoData ==
    [main |-> "absent", temp |-> Absent, humidity |-> Absent, wind |-> "absent",
     speed |-> Absent, rain |-> Absent]

LiveData ==
    [main : {"dict"}, temp : TempFields, humidity : HumidityFields,
     wind : {"dict"}, speed : SpeedFields, rain : RainFields]
    \cup {[NoData EXCEPT !.main = m, !.wind = w] :
             m \in {"absent", "bad", "dict"}, w \in {"absent", "bad", "dict"}}

\* what the provider can do: no answer, an error status, a body that is no
\* JSON, or a JSON body; err is the text of the exception raised, if any
Replies ==
    {[outcome |-> o, err |-> ErrText(n), data |-> NoData] :
        o \in {"network_error", "http_error", "bad_json"}, n \in GatewayErrLens}
    \cup {[outcome |-> "ok", err |-> ErrText(n), data |-> d] :
             n \in GatewayErrLens, d \in {x \in LiveData : LiveRaises(x)}}
    \cup {[outcome |-> "ok", err |-> NoText, data |-> d] :
             d \in {x \in LiveData : ~LiveRaises(x)}}

FewReplies ==
    {[outcome |-> "network_error", err |-> ErrText(1), data |-> NoData],
     [outcome |-> "ok", err |-> NoText, data |-> NoData]}

RecommendTemps == {HotTemp * Scale - 1, HotTemp * Scale, HotTemp * Scale + 1, 2000}
RecommendRains == {0, RainPostpone - 1, RainPostpone, RainPostpone + 1, 100}
RecommendHumidities ==
    {0, DryHumidity - 1, DryHumidity, DryHumidity + 1, HumidAbove, HumidAbove + 1, 100}
RecommendWinds == {0, WindyAbove * Scale, WindyAbove * Scale + 1, 3000}

Districts == {<<"b", "a">>, <<"B", "A">>, <<"a", " ", "b">>, <<"a", "B", " ", "b", "A">>}
Today == 20

Digits == {"9", "x"}
PhoneStrings == UNION {[1..n -> Digits] : n \in 0..MaxPhoneLen}
LoginPayloads == {[phone |-> None]} \cup {[phone |-> Some(p)] : p \in PhoneStrings}
FewLoginPayloads ==
    {[phone |-> Some([i \in 1..n |-> "9"])] : n \in {MinPhoneLen - 1, MinPhoneLen}}

Optionals ==
    {[village |-> None, district |-> None, message |-> None],
     [village |-> Some("Rampur"), district |-> Some("Sehore"),
      message |-> Some("hello")]}
ContactPayloads ==
    {[name |-> n, phone |-> p, village |-> o.village, district |-> o.district,
      message |-> o.message] :
        n \in {None, Some(""), Some("Asha")}, p \in {None, Some("9876543210")},
        o \in Optionals}
FewContactPayloads ==
    {[name |-> None, phone |-> None, village |-> None, district |-> None,
      message |-> None],
     [name |-> Some("Asha"), phone |-> Some("9876543210"),
      village |-> Some("Rampur"), district |-> Some("Sehore"),
      message |-> Some("hello")]}

SubscribePayloads ==
    [userId : {None, Some("u1")}, lat : {None, Some(2326)}, lon : {None, Some(7741)}]
FewSubscribePayloads ==
    {p \in SubscribePayloads : p.userId # None /\ p.lat = p.lon}

StoreErrLens == {1, HealthErrLen + 1}

DemoDetectInputs == {<<Some("img"), Some("Rice")>>}
DemoFertilizerCrops == {None, Some("Rice"), Some("Maize")}

----------------------------------------------------------------------------
(* Specifications *)

\* every handler, on a few requests each
Next ==
    \/ demo_weather
    \/ demo_mandi
    \/ \E i \in DemoDetectInputs : demo_detect_disease(i[1], i[2])
    \/ \E crop \in DemoFertilizerCrops : demo_fertilizer(crop)
    \/ \E c \in Coords, d \in FewMockDraws, r \in FewReplies :
          get_weather_coords(c[1], c[2], d, r)
    \/ \E offs \in [1..Len(crops) -> {ItemOffLo}] :
          get_mandi_district(<<"b", "a">>, Today, offs, 1)
    \/ \E p \in FewLoginPayloads : otp_login(p)
    \/ \E p \in FewContactPayloads, ok \in BOOLEAN : submit_contact(p, ok, ErrText(1))
    \/ \E p \in FewSubscribePayloads, ok \in BOOLEAN :
          subscribe_weather(p, Today, ok, ErrText(1))
    \/ \E listed \in BOOLEAN : test_database(listed, ErrText(1))

InitServing ==
    /\ Init
    /\ ~api_key
    /\ database_url
    /\ db \in {None, Some("krishi")}
    /\ store.others = 0

Spec == InitServing /\ [][Next]_vars

\* No handler below reads what an earlier request wrote (req, resp, upstream,
\* calls, store, demoLog), so the first request a process answers stands for
\* every request: these specifications follow a process up to its first answer.
Fresh == resp = NoResponse

\* the weather endpoint, with and without a provider key
NextWeather ==
    /\ Fresh
    /\ \E c \in Coords :
          \/ \E d \in MockDraws :
                ~api_key /\ get_weather_coords(c[1], c[2], d, NoUpstream)
          \/ \E r \in Replies :
                api_key /\ get_weather_coords(c[1], c[2], CHOOSE d \in MockDraws : TRUE, r)

InitWeather == Init /\ db = None /\ ~database_url /\ store.others = 0

SpecWeather == InitWeather /\ [][NextWeather]_vars

\* the irrigation rule on its own
NextRecommend ==
    Fresh /\
    \E t \in RecommendTemps, r \in RecommendRains, h \in RecommendHumidities,
       w \in RecommendWinds : recommend_irrigation_call(t, r, h, w)

InitPlain == InitWeather /\ ~api_key

SpecRecommend == InitPlain /\ [][NextRecommend]_vars

\* the mandi endpoint
NextMandi ==
    Fresh /\
    \E d \in Districts, offs \in [1..Len(crops) -> ItemOffsets], s \in 1..TrendSeeds :
        get_mandi_district(d, Today, offs, s)

SpecMandi == InitPlain /\ [][NextMandi]_vars

\* the login endpoint
NextLogin == Fresh /\ \E p \in LoginPayloads : otp_login(p)

SpecLogin == InitPlain /\ [][NextLogin]_vars

\* the endpoints that use the store
NextStore ==
    \/ \E p \in ContactPayloads, ok \in BOOLEAN, n \in StoreErrLens :
          submit_contact(p, ok, ErrText(n))
    \/ \E p \in SubscribePayloads, ok \in BOOLEAN, n \in StoreErrLens :
          subscribe_weather(p, Today, ok, ErrText(n))
    \/ \E listed \in BOOLEAN, n \in StoreErrLens : test_database(listed, ErrText(n))

InitStore == Init /\ ~api_key

SpecStore == InitStore /\ [][NextStore]_vars

----------------------------------------------------------------------------
(* Properties *)

RuleRain == "High rain chance - postpone irrigation and ensure drainage."
RuleHotDry == "Hot and dry - irrigate in early morning/evening, consider mulching."
RuleWindy == "Windy - avoid spraying; irrigate lightly to reduce stress."
RuleHumid == "Humid - reduce irrigation to prevent fungal diseases."
RuleNormal == "Normal conditions - maintain regular irrigation schedule."

\* the decision table of the irrigation rule, rule by rule: t and w in
\* hundredths, r and h whole numbers
TableHolds(t, r, h, w, text) ==
    /\ r >= 60 => text = RuleRain
    /\ (r < 60 /\ t >= 3400 /\ h < 40) => text = RuleHotDry
    /\ (r < 60 /\ ~(t >= 3400 /\ h < 40) /\ w > 2000) => text = RuleWindy
    /\ (r < 60 /\ ~(t >= 3400 /\ h < 40) /\ w <= 2000 /\ h > 80) => text = RuleHumid
    /\ (r < 60 /\ ~(t >= 3400 /\ h < 40) /\ w <= 2000 /\ h <= 80) => text = RuleNormal

\* C1: _recommend_irrigation is an ordered decision list, the first matching
\* rule wins: rain >= 60 gives rule 1; else temperature >= 34 and humidity < 40
\* gives rule 2; else wind > 20 gives rule 3; else humidity > 80 gives rule 4;
\* else the normal-schedule text.  An input matching rules 1 and 2 gets rule 1.
C1_DecisionList ==
    req.op = "recommend" =>
        /\ TableHolds(req.temp_c, req.rain_prob, req.humidity, req.wind_speed,
                      resp.text)
        /\ (req.rain_prob >= 60 /\ req.temp_c >= 3400 /\ req.humidity < 40)
               => resp.text = RuleRain

\* the rule was called on an input that matches rule 1 and rule 2
C1_Witness ==
    /\ req.op = "recommend"
    /\ req.rain_prob >= 60 /\ req.temp_c >= 3400 /\ req.humidity < 40
    /\ resp.text = RuleRain

MockAnswered == req.op = "weather_coords" /\ ~api_key

\* C2: with no provider key, the weather endpoint returns temperature in
\* [24, 35], rain probability in [0, 90], humidity in [35, 88], wind speed in
\* [2, 18], and the recommendation the decision table gives for the four
\* values it returns.
C2_MockWeather ==
    MockAnswered =>
        /\ resp.status = 200
        /\ resp.temperature_c >= 2400 /\ resp.temperature_c <= 3500
        /\ resp.rain_probability >= 0 /\ resp.rain_probability <= 90
        /\ resp.humidity >= 35 /\ resp.humidity <= 88
        /\ resp.wind_speed >= 200 /\ resp.wind_speed <= 1800
        /\ TableHolds(resp.temperature_c, resp.rain_probability, resp.humidity,
                      resp.wind_speed, resp.recommendation)

\* a mock answer at the top of the ranges, where rain (90) and humidity (88)
\* would each pick a different rule
C2_Witness ==
    /\ MockAnswered
    /\ resp.status = 200
    /\ resp.temperature_c = 3500
    /\ resp.rain_probability = 90
    /\ resp.humidity = 88
    /\ resp.recommendation = RuleRain

\* C3: POST /api/login fails with a client error for a phone that is absent,
\* empty or shorter than 10 characters, and for a phone of 10 or more
\* characters succeeds with the message "OTP sent to your number".
C3_Login ==
    req.op = "login" =>
        IF req.payload.phone = None \/ Len(req.payload.phone[1]) < 10
        THEN resp.status >= 400 /\ resp.status < 500
        ELSE /\ resp.status = 200
             /\ resp.success
             /\ resp.message = "OTP sent to your number"

\* a phone of exactly 10 characters was accepted
C3_Witness ==
    /\ req.op = "login"
    /\ req.payload.phone # None
    /\ Len(req.payload.phone[1]) = 10
    /\ resp.status = 200

Carries(doc, payload) ==
    /\ doc.name = payload.name
    /\ doc.phone = payload.phone
    /\ doc.village = payload.village
    /\ doc.district = payload.district
    /\ doc.message = payload.message

\* C5: for a valid contact submission (name and phone present), when the
\* insert succeeds the answer is a non-empty identifier string and the
\* contactsubmission collection holds exactly one new record, carrying the
\* submitted name, phone, village, district and message; when the insert
\* fails the answer is a server error (500) with no identifier.
C5_Contact ==
    [][(/\ req'.op = "contact"
        /\ req'.payload.name # None
        /\ req'.payload.phone # None)
       => /\ upstream'.outcome = "inserted" =>
                /\ resp'.status = 200
                /\ Len(resp'.id) > 0
                /\ Len(store'.contactsubmission) = Len(store.contactsubmission) + 1
                /\ SubSeq(store'.contactsubmission, 1, Len(store.contactsubmission))
                       = store.contactsubmission
                /\ Carries(store'.contactsubmission[Len(store'.contactsubmission)],
                           req'.payload)
                /\ store'.weatheralert = store.weatheralert
          /\ upstream'.outcome = "insert_failed" =>
                /\ resp'.status = 500
                /\ "id" \notin DOMAIN resp'
                /\ store' = store
          /\ upstream'.outcome \in {"inserted", "insert_failed"}]_vars

\* a contact submission with every optional field set was stored
C5_Witness ==
    /\ req.op = "contact"
    /\ upstream.outcome = "inserted"
    /\ resp.status = 200
    /\ req.payload.district # None
    /\ Len(store.contactsubmission) > 0

ContactMalformed(request) ==
    request.op = "contact"
    /\ (request.payload.name = None \/ request.payload.phone = None)

\* C6 as stated: after any sequence of contact requests every document of
\* the contactsubmission collection has a non-empty name string and a phone
\* string, and a request whose name or phone is missing is rejected with a
\* validation error before any store write.
C6_Original ==
    [][/\ \A i \in 1..Len(store'.contactsubmission) :
             /\ store'.contactsubmission[i].name # None
             /\ store'.contactsubmission[i].name # Some("")
             /\ store'.contactsubmission[i].phone # None
       /\ ContactMalformed(req') => (resp'.status = 422 /\ store' = store)]_vars

\* C6, amended: every document of the contactsubmission collection has a
\* name string (which may be empty) and a phone string, and a request whose
\* name or phone is missing is rejected with a validation error before any
\* store write.
C6_Amended ==
    [][/\ \A i \in 1..Len(store'.contactsubmission) :
             /\ store'.contactsubmission[i].name # None
             /\ store'.contactsubmission[i].phone # None
       /\ ContactMalformed(req') => (resp'.status = 422 /\ store' = store)]_vars

\* a document with an empty name is in the collection, and a malformed
\* request has just been rejected
C6_Witness ==
    /\ \E i \in 1..Len(store.contactsubmission) :
          store.contactsubmission[i].name = Some("")
    /\ ContactMalformed(req)
    /\ resp.status = 422

\* the provider call failed: no answer, an error status, a body that is no
\* JSON, or a JSON body with an ill-typed part
ProviderFailed ==
    /\ req.op = "weather_coords"
    /\ api_key
    /\ \/ upstream.outcome \in {"network_error", "http_error", "bad_json"}
       \/ /\ upstream.outcome = "ok"
          /\ \/ "bad" \in {upstream.data.main, upstream.data.wind}
             \/ "bad" \in {upstream.data.temp.kind, upstream.data.humidity.kind,
                           upstream.data.speed.kind, upstream.data.rain.kind}
             \/ upstream.data.rain.kind = "bad1h"

\* C7: with a provider key set, a failed provider call (network error, error
\* status, unparsable or ill-typed response) is answered with a 502 whose
\* detail carries at most the first 120 characters of the underlying error,
\* after exactly one call of the provider, and never with a mock response.
C7_Gateway ==
    ProviderFailed =>
        /\ resp.status = 502
        /\ Len(resp.detail.text) <= 120
        /\ Len(resp.detail.text) <= Len(upstream.err)
        /\ \A i \in 1..Len(resp.detail.text) : resp.detail.text[i] = upstream.err[i]
        /\ (Len(upstream.err) >= 120 => Len(resp.detail.text) = 120)
        /\ calls = 1

\* a provider failure whose error text is longer than 120 characters
C7_Witness ==
    /\ ProviderFailed
    /\ upstream.outcome = "network_error"
    /\ Len(upstream.err) > 120
    /\ resp.status = 502

\* C8: GET /test always answers normally; with db None, or when listing the
\* collections raises, it reports a not-connected or degraded database
\* status; when the store is reachable it reports connected status and lists
\* at most 10 collection names.
C8_Health ==
    req.op = "test" =>
        /\ resp.status = 200
        /\ db = None =>
              /\ resp.connection_status = "Not Connected"
              /\ resp.database.text = "Available but not initialized"
              /\ resp.collections = << >>
        /\ (db # None /\ upstream.outcome = "list_error") =>
              /\ resp.database.text = "Connected but Error: "
              /\ resp.collections = << >>
        /\ (db # None /\ upstream.outcome = "listed") =>
              /\ resp.connection_status = "Connected"
              /\ resp.database.text = "Connected & Working"
              /\ Len(resp.collections) <= 10
              /\ Len(resp.collections) <= Len(CollectionNames)
              /\ \A i \in 1..Len(resp.collections) :
                    resp.collections[i] = CollectionNames[i]

\* the store is reachable and has more than 10 collections
C8_Witness ==
    /\ req.op = "test"
    /\ db # None
    /\ upstream.outcome = "listed"
    /\ Len(CollectionNames) > 10
    /\ Len(resp.collections) = 10

LiveAnswered ==
    /\ req.op = "weather_coords"
    /\ api_key
    /\ upstream.outcome = "ok"
    /\ resp.status = 200

\* C9 as stated: on the live path the rain probability equals
\* min(90, precipitation of the last hour * 50) when the response has that
\* field and 0 when it has not, and the recommendation is the decision table
\* applied to the returned temperature, rain probability, humidity and wind.
C9_Original ==
    LiveAnswered =>
        /\ upstream.data.rain.kind = "num" =>
              resp.rain_probability * 100
                  = Min(90 * 100, upstream.data.rain.v * 50)
        /\ upstream.data.rain.kind # "num" => resp.rain_probability = 0
        /\ TableHolds(resp.temperature_c, resp.rain_probability, resp.humidity,
                      resp.wind_speed, resp.recommendation)

\* q is x (in hundredths) with its fraction dropped
Truncates(q, x) ==
    IF x >= 0 THEN q * 100 <= x /\ x < (q + 1) * 100
    ELSE (q - 1) * 100 < x /\ x <= q * 100

\* C9, amended: on the live path the rain probability equals min(90, n),
\* where n is precipitation of the last hour * 50 with its fraction dropped
\* (int() truncates toward zero), when the response has that field, and 0
\* when it has not; the recommendation is the decision table applied to the
\* returned temperature, rain probability, humidity and wind.
C9_Amended ==
    LiveAnswered =>
        /\ upstream.data.rain.kind = "num" =>
              \E q \in -300..300 :
                  /\ Truncates(q, upstream.data.rain.v * 50)
                  /\ resp.rain_probability = Min(90, q)
        /\ upstream.data.rain.kind # "num" => resp.rain_probability = 0
        /\ TableHolds(resp.temperature_c, resp.rain_probability, resp.humidity,
                      resp.wind_speed, resp.recommendation)

\* 1.19 mm in the last hour: 59.5 becomes 59, below the threshold of rule 1
C9_Witness ==
    /\ LiveAnswered
    /\ upstream.data.rain = Num(119)
    /\ resp.rain_probability = 59
    /\ resp.recommendation # RuleRain

DemoOps == {"demo_weather", "demo_mandi", "demo_detect_disease", "demo_fertilizer"}

\* C10: a demo endpoint returns the same response whenever it gets the same
\* request, whatever requests were served in between, and writes nothing to
\* the store nor changes anything else.
C10_Demo ==
    [][req'.op \in DemoOps =>
          /\ \A e \in demoLog : e.req = req' => e.resp = resp'
          /\ store' = store
          /\ <<api_key', db', database_url'>> = <<api_key, db, database_url>>]_vars

\* a demo request was answered a second time, after a contact submission was
\* stored
C10_Witness ==
    /\ \E e \in demoLog : e.again /\ e.req.op = "demo_detect_disease"
    /\ \E e \in demoLog : e.again /\ e.req.op = "demo_fertilizer"
    /\ Len(store.contactsubmission) > 0

====
